---- MODULE Spec2Model ----
(***************************************************************************)
(* ChatGLM._call of langchain/llms/chatglm.py as a state machine.          *)
(*                                                                         *)
(* Python values are tagged records: None, strings (sequences of           *)
(* one-character strings), numbers, lists and dicts.  A dict's items are   *)
(* a function from its keys.  An exception is the pair of its class and    *)
(* the source line that raises it.                                         *)
(***************************************************************************)
EXTENDS Integers, Sequences, FiniteSets

VARIABLES
    self,     \* the ChatGLM instance: its pydantic fields
    zhipuai,  \* whether `from zhipuai.utils import jwt_token` succeeds
    pc,       \* per caller: position inside _call
    local,    \* per caller: the locals of its current _call
    result,   \* per caller: how its current _call ended
    self0,    \* history variable: the instance as constructed
    log,      \* history variable: raw choices of the calls that returned, in order
    ncalls    \* number of calls started

vars == <<self, zhipuai, pc, local, result, self0, log, ncalls>>

-----------------------------------------------------------------------------
(* Bounds of the model *)

MaxCalls == 3

MaxLen == 3

MaxMarkerLen == 2

MaxStops == 2

NumThreads == 2

-----------------------------------------------------------------------------
(* Python values *)

None == [t |-> "None"]
Str(s) == [t |-> "str", s |-> s]
Num(n) == [t |-> "num", n |-> n]
List(l) == [t |-> "list", l |-> l]
Dict(d) == [t |-> "dict", d |-> d]

EmptyDict == [k \in {} |-> None]
Item(k, v) == [x \in {k} |-> v]

\* dict.update: the items of e are added to d, replacing those with the same key
Update(d, e) == [k \in (DOMAIN d) \cup (DOMAIN e) |-> IF k \in DOMAIN e THEN e[k] ELSE d[k]]

\* the body of a response that is not JSON: response.json() raises JSONDecodeError
Invalid == [t |-> "invalid"]

Raise(cls, line) == [ok |-> FALSE, v |-> None, exc |-> [cls |-> cls, line |-> line]]
Value(v) == [ok |-> TRUE, v |-> v, exc |-> [cls |-> "", line |-> 0]]

\* v[k] for a string key k
Subscript(v, k) ==
    CASE v.t = "dict" -> IF k \in DOMAIN v.d THEN Value(v.d[k]) ELSE Raise("KeyError", 132)
      [] OTHER -> Raise("TypeError", 132)

\* v[i] for an integer i; a negative i counts from the end
Index(v, i) ==
    CASE v.t = "list" ->
            LET n == IF i < 0 THEN Len(v.l) + i ELSE i
            IN  IF 0 <= n /\ n < Len(v.l) THEN Value(v.l[n + 1]) ELSE Raise("IndexError", 132)
      [] v.t = "str" ->
            LET n == IF i < 0 THEN Len(v.s) + i ELSE i
            IN  IF 0 <= n /\ n < Len(v.s) THEN Value(Str(<<v.s[n + 1]>>))
                ELSE Raise("IndexError", 132)
      [] v.t = "dict" -> Raise("KeyError", 132)
      [] OTHER -> Raise("TypeError", 132)

-----------------------------------------------------------------------------
(* The class defaults of the fields *)

DefaultMaxToken == 20000

\* temperature and top_p in tenths
DefaultTemperature == 1

DefaultTopP == 7

HTTP_OK == 200

-----------------------------------------------------------------------------
(* _call, line by line *)

\* lines 91-99: the import of the signing library, then the api_key test
Precheck_noKeyTest(lib, api_key) ==
    IF ~lib THEN Raise("Exception", 94) ELSE Value(None)

Precheck(lib, api_key) ==
    IF ~lib THEN Raise("Exception", 94)
    ELSE IF api_key = <<>> THEN Raise("Exception", 96)
    ELSE Value(None)

\* line 84: self.model_kwargs or {}
ModelKwargs(obj) ==
    IF obj.model_kwargs = None \/ DOMAIN obj.model_kwargs.d = {}
    THEN EmptyDict
    ELSE obj.model_kwargs.d

\* lines 102-109
DefaultPayload(obj, prompt) ==
    [k \in {"prompt", "temperature", "history", "max_length", "top_p", "return_type"} |->
        CASE k = "prompt" -> Str(prompt)
          [] k = "temperature" -> obj.temperature
          [] k = "history" -> List(obj.history)
          [] k = "max_length" -> obj.max_token
          [] k = "top_p" -> obj.top_p
          [] k = "return_type" -> obj.return_type]

\* lines 102-111
BuildPayload_callFirst(obj, prompt, kwargs) ==
    Update(Update(DefaultPayload(obj, prompt), kwargs), ModelKwargs(obj))

BuildPayload(obj, prompt, kwargs) ==
    Update(Update(DefaultPayload(obj, prompt), ModelKwargs(obj)), kwargs)

\* line 123
StatusOK_below500(status) == status < 500

StatusOK(status) == status = HTTP_OK

\* lines 126-142: the text, or the exception that leaves the try; line 132 takes
\* choices[i] with i = 0
ParseResponseAt(body, i) ==
    IF body = Invalid THEN Raise("ValueError", 139)
    ELSE IF body.t = "dict"
         THEN IF "data" \in DOMAIN body.d
              THEN LET data == Subscript(body, "data")
                       choices == Subscript(data.v, "choices")
                       choice == Index(choices.v, i)
                       content == Subscript(choice.v, "content")
                   IN  IF ~choices.ok THEN choices
                       ELSE IF ~choice.ok THEN choice
                       ELSE content
              ELSE Raise("ValueError", 134)
         ELSE Raise("ValueError", 136)

ParseResponse_lastChoice(body) == ParseResponseAt(body, -1)

ParseResponse(body) == ParseResponseAt(body, 0)

-----------------------------------------------------------------------------
(* langchain.llms.utils.enforce_stop_tokens *)

\* str.find: the smallest start index (from 0) of marker in text, -1 when there is none
Find(text, marker) ==
    LET at == {i \in 0..(Len(text) - Len(marker)) :
                   SubSeq(text, i + 1, i + Len(marker)) = marker}
    IN  IF at = {} THEN -1 ELSE CHOOSE i \in at : \A j \in at : i <= j

\* cut at the minimum index at which a marker is found; unchanged when none is found
enforce_stop_tokens(text, stop) ==
    LET found == {Find(text, stop[j]) : j \in 1..Len(stop)} \ {-1}
    IN  IF found = {} THEN text
        ELSE SubSeq(text, 1, CHOOSE i \in found : \A j \in found : i <= j)

\* cut at the first marker of the list that is found
enforce_first_listed(text, stop) ==
    LET hits == {j \in 1..Len(stop) : Find(text, stop[j]) # -1}
    IN  IF hits = {} THEN text
        ELSE SubSeq(text, 1, Find(text, stop[CHOOSE j \in hits : \A h \in hits : j <= h]))

\* lines 144-145; the helper splits by a regular expression, which raises TypeError
\* on a text that is not a str
ApplyStop_firstListed(text, stop) ==
    IF stop = None THEN Value(text)
    ELSE IF text.t # "str" THEN Raise("TypeError", 145)
    ELSE Value(Str(enforce_first_listed(text.s, stop.l)))

ApplyStop(text, stop) ==
    IF stop = None THEN Value(text)
    ELSE IF text.t # "str" THEN Raise("TypeError", 145)
    ELSE Value(Str(enforce_stop_tokens(text.s, stop.l)))

\* line 147, right-hand side
NewHistory_text(history, parsed_response, text) ==
    history \o <<<<None, text>>>>

NewHistory_bounded(history, parsed_response, text) ==
    IF Len(history) >= 1
    THEN Tail(history) \o <<<<None, parsed_response.d["data"].d["choices"]>>>>
    ELSE history \o <<<<None, parsed_response.d["data"].d["choices"]>>>>

NewHistory(history, parsed_response, text) ==
    history \o <<<<None, parsed_response.d["data"].d["choices"]>>>>

-----------------------------------------------------------------------------
(* State *)

NoResponse == [status |-> 0, body |-> Invalid]

Frame0 ==
    [prompt |-> <<>>, stop |-> None, kwargs |-> EmptyDict, payload |-> EmptyDict,
     posts |-> 0, response |-> NoResponse, parsed_response |-> None, text |-> None,
     tmp |-> <<>>, history_before |-> <<>>]

NoResult == [kind |-> "none", value |-> None, exc |-> [cls |-> "", line |-> 0]]
Returned(v) == [kind |-> "returned", value |-> v, exc |-> [cls |-> "", line |-> 0]]
Raised(e) == [kind |-> "raised", value |-> None, exc |-> e]

\* lines 28-47
Instance(api_key, model_kwargs, history, with_history) ==
    [endpoint_url |-> "http://127.0.0.1:8000/",
     api_key |-> api_key,
     model_kwargs |-> model_kwargs,
     max_token |-> Num(DefaultMaxToken),
     temperature |-> Num(DefaultTemperature),
     history |-> history,
     top_p |-> Num(DefaultTopP),
     with_history |-> with_history,
     return_type |-> Str(<<"t", "e", "x", "t">>)]

InitWith(objs, libs, callers) ==
    /\ self \in objs
    /\ self0 = self
    /\ zhipuai \in libs
    /\ pc = [t \in callers |-> "idle"]
    /\ local = [t \in callers |-> Frame0]
    /\ result = [t \in callers |-> NoResult]
    /\ log = <<>>
    /\ ncalls = 0

-----------------------------------------------------------------------------
(* Actions *)

\* lines 84-111: entry, the two tests and the payload
Call(t, prompt, stop, kwargs) ==
    /\ pc[t] \in {"idle", "done"}
    /\ ncalls < MaxCalls
    /\ ncalls' = ncalls + 1
    /\ LET pre == Precheck(zhipuai, self.api_key)
           frame == [Frame0 EXCEPT !.prompt = prompt, !.stop = stop, !.kwargs = kwargs,
                                   !.history_before = self.history]
       IN  IF pre.ok
           THEN /\ local' = [local EXCEPT ![t] =
                                [frame EXCEPT !.payload = BuildPayload(self, prompt, kwargs)]]
                /\ pc' = [pc EXCEPT ![t] = "post"]
                /\ result' = [result EXCEPT ![t] = NoResult]
           ELSE /\ local' = [local EXCEPT ![t] = frame]
                /\ pc' = [pc EXCEPT ![t] = "done"]
                /\ result' = [result EXCEPT ![t] = Raised(pre.exc)]
    /\ UNCHANGED <<self, zhipuai, self0, log>>

\* lines 116-119: requests.post raises a RequestException
PostFails(t) ==
    /\ pc[t] = "post"
    /\ local' = [local EXCEPT ![t].posts = @ + 1]
    /\ pc' = [pc EXCEPT ![t] = "done"]
    /\ result' = [result EXCEPT ![t] = Raised([cls |-> "ValueError", line |-> 119])]
    /\ UNCHANGED <<self, zhipuai, self0, log, ncalls>>

\* lines 116-145: requests.post answers; the status test, the parse and the stop markers
Post(t, response) ==
    /\ pc[t] = "post"
    /\ LET parsed == ParseResponse(response.body)
           cut == ApplyStop(parsed.v, local[t].stop)
           err == IF ~StatusOK(response.status) THEN Raise("ValueError", 124)
                  ELSE IF ~parsed.ok THEN parsed
                  ELSE cut
       IN  IF err.ok
           THEN /\ local' = [local EXCEPT ![t].posts = @ + 1,
                                          ![t].response = response,
                                          ![t].parsed_response = response.body,
                                          ![t].text = cut.v]
                /\ pc' = [pc EXCEPT ![t] = "parsed"]
                /\ UNCHANGED result
           ELSE /\ local' = [local EXCEPT ![t].posts = @ + 1, ![t].response = response]
                /\ pc' = [pc EXCEPT ![t] = "done"]
                /\ result' = [result EXCEPT ![t] = Raised(err.exc)]
    /\ UNCHANGED <<self, zhipuai, self0, log, ncalls>>

\* lines 146-147: the with_history test and the evaluation of self.history + [[None, choices]];
\* line 149 when with_history is false
Extend(t) ==
    /\ pc[t] = "parsed"
    /\ IF self.with_history
       THEN /\ local' = [local EXCEPT ![t].tmp =
                            NewHistory(self.history, local[t].parsed_response, local[t].text)]
            /\ pc' = [pc EXCEPT ![t] = "store"]
            /\ UNCHANGED <<result, log>>
       ELSE /\ pc' = [pc EXCEPT ![t] = "done"]
            /\ result' = [result EXCEPT ![t] = Returned(local[t].text)]
            /\ log' = Append(log, local[t].response.body.d["data"].d["choices"])
            /\ UNCHANGED local
    /\ UNCHANGED <<self, zhipuai, self0, ncalls>>

\* line 147, the assignment to self.history, and line 149
Store(t) ==
    /\ pc[t] = "store"
    /\ self' = [self EXCEPT !.history = local[t].tmp]
    /\ pc' = [pc EXCEPT ![t] = "done"]
    /\ result' = [result EXCEPT ![t] = Returned(local[t].text)]
    /\ log' = Append(log, local[t].response.body.d["data"].d["choices"])
    /\ UNCHANGED <<zhipuai, local, self0, ncalls>>

-----------------------------------------------------------------------------
(* Inputs *)

Alphabet == {"a", "m"}

Texts(n) == UNION {[1..k -> Alphabet] : k \in 0..n}

Choice(content) == Dict(Item("content", content))

Envelope(choices) == Dict(Item("data", Dict(Item("choices", List(choices)))))

Contents == {<<"a", "m">>, <<"m">>}

GoodBodies ==
    {Envelope(<<Choice(Str(c))>>) : c \in Contents}
        \cup {Envelope(<<Choice(Str(<<"m", "a">>)), Choice(Str(<<"a">>))>>)}

BadBodies ==
    {Invalid,
     List(<<>>),
     Dict(Item("unexpected", Str(<<"s">>))),
     Dict(Item("data", None)),
     Dict(Item("data", Dict(EmptyDict))),
     Dict(Item("data", Dict(Item("choices", Str(<<"a">>))))),
     Envelope(<<>>),
     Envelope(<<None>>),
     Envelope(<<Dict(EmptyDict)>>),
     Envelope(<<Choice(None)>>)}

Statuses == {HTTP_OK, 404, 500}

Responses == [status : Statuses, body : GoodBodies \cup BadBodies]

Prompts == {<<>>, <<"h", "i">>}

Stops == {None, List(<<>>), List(<<<<"m">>>>)}

Kwargs ==
    {EmptyDict,
     Item("temperature", Num(9)),
     Update(Item("top_k", Num(2)), Item("max_length", Num(5)))}

ModelKwargsChoices ==
    {None,
     Dict(EmptyDict),
     Dict(Update(Item("temperature", Num(5)), Item("top_k", Num(1))))}

Histories == {<<>>, <<<<Str(<<"q">>), Str(<<"a">>)>>>>}

Instances ==
    {Instance(k, mk, h, wh) :
        k \in {<<>>, <<"k">>}, mk \in ModelKwargsChoices, h \in Histories, wh \in BOOLEAN}

-----------------------------------------------------------------------------
(* Calls made one after another on one instance *)

Init == InitWith(Instances, BOOLEAN, {1})

Next ==
    \/ \E t \in DOMAIN pc, prompt \in Prompts, stop \in Stops, kwargs \in Kwargs :
          Call(t, prompt, stop, kwargs)
    \/ \E t \in DOMAIN pc : PostFails(t)
    \/ \E t \in DOMAIN pc, response \in Responses : Post(t, response)
    \/ \E t \in DOMAIN pc : Extend(t)
    \/ \E t \in DOMAIN pc : Store(t)

Spec == Init /\ [][Next]_vars

-----------------------------------------------------------------------------
(* One call with stop markers on a response of the expected shape *)

Markers == Texts(MaxMarkerLen)

StopLists == UNION {[1..k -> Markers] : k \in 0..MaxStops}

InitStop == InitWith({Instance(<<"k">>, None, <<>>, FALSE)}, {TRUE}, {1})

NextStop ==
    \/ \E t \in DOMAIN pc, stop \in StopLists :
          ncalls = 0 /\ Call(t, <<>>, List(stop), EmptyDict)
    \/ \E t \in DOMAIN pc, text \in Texts(MaxLen) :
          Post(t, [status |-> HTTP_OK, body |-> Envelope(<<Choice(Str(text))>>)])
    \/ \E t \in DOMAIN pc : Extend(t)

SpecStop == InitStop /\ [][NextStop]_vars

-----------------------------------------------------------------------------
(* Calls made by several threads on one instance that records history *)

InitConc == InitWith({Instance(<<"k">>, None, <<>>, TRUE)}, {TRUE}, 1..NumThreads)

NextConc ==
    \/ \E t \in DOMAIN pc : Call(t, <<>>, None, EmptyDict)
    \/ \E t \in DOMAIN pc : PostFails(t)
    \/ \E t \in DOMAIN pc, response \in [status : {HTTP_OK, 500}, body : GoodBodies] :
          Post(t, response)
    \/ \E t \in DOMAIN pc : Extend(t)
    \/ \E t \in DOMAIN pc : Store(t)

SpecConc == InitConc /\ [][NextConc]_vars

-----------------------------------------------------------------------------
(* The error kinds of the specification, by the statement that raises *)

Kind(exc) ==
    CASE exc.cls = "Exception" /\ exc.line = 94 -> "DependencyMissingError"
      [] exc.cls = "Exception" /\ exc.line = 96 -> "ConfigurationError"
      [] exc.cls = "ValueError" /\ exc.line = 119 -> "TransportError"
      [] exc.cls = "ValueError" /\ exc.line = 124 -> "UpstreamError"
      [] exc.cls = "ValueError" /\ exc.line \in {134, 136, 139} -> "ResponseParseError"
      [] OTHER -> "none"

ErrorKinds ==
    {"ConfigurationError", "DependencyMissingError", "TransportError", "UpstreamError",
     "ResponseParseError"}

\* the caller's call got an answer from the endpoint
Answered(t) == local[t].response # NoResponse

\* {data: {choices: [{content: <string>}, ...]}}
IsEnvelope(body) ==
    /\ body.t = "dict"
    /\ "data" \in DOMAIN body.d
    /\ body.d["data"].t = "dict"
    /\ "choices" \in DOMAIN body.d["data"].d
    /\ body.d["data"].d["choices"].t = "list"
    /\ Len(body.d["data"].d["choices"].l) >= 1
    /\ body.d["data"].d["choices"].l[1].t = "dict"
    /\ "content" \in DOMAIN body.d["data"].d["choices"].l[1].d
    /\ body.d["data"].d["choices"].l[1].d["content"].t = "str"

RawChoices(body) == body.d["data"].d["choices"]

FirstContent(body) == body.d["data"].d["choices"].l[1].d["content"]

-----------------------------------------------------------------------------
(* Claims *)

\* C1 as stated: with an empty api_key every call fails with ConfigurationError, also
\* when the signing library is unavailable, and issues no POST.
C1_EmptyKeyConfigurationError ==
    \A t \in DOMAIN pc :
        self.api_key = <<>> =>
            /\ local[t].posts = 0
            /\ pc[t] = "done" =>
                  /\ result[t].kind = "raised"
                  /\ Kind(result[t].exc) = "ConfigurationError"

\* C1 amended: with an empty api_key every call fails and issues no POST; the error is
\* ConfigurationError when the signing library can be imported and
\* DependencyMissingError when it cannot.
C1_EmptyKeyFailsBeforePost ==
    \A t \in DOMAIN pc :
        self.api_key = <<>> =>
            /\ local[t].posts = 0
            /\ pc[t] \in {"idle", "done"}
            /\ pc[t] = "done" =>
                  /\ result[t].kind = "raised"
                  /\ Kind(result[t].exc) =
                        IF zhipuai THEN "ConfigurationError" ELSE "DependencyMissingError"

C1_Witness ==
    \E t \in DOMAIN pc :
        /\ self.api_key = <<>>
        /\ zhipuai
        /\ pc[t] = "done"
        /\ Kind(result[t].exc) = "ConfigurationError"

\* C2 as stated: with with_history, after N >= 1 calls that returned a text the history
\* has exactly N entries, the k-th being [None, raw choices of the k-th such call].
C2_HistoryIsLog ==
    (/\ self.with_history
     /\ Len(log) >= 1
     /\ \A k \in 1..Len(log) : log[k].l[1].d["content"].t = "str") =>
        /\ Len(self.history) = Len(log)
        /\ \A k \in 1..Len(log) : self.history[k] = <<None, log[k]>>

\* C2 amended: with with_history, after N calls that returned the history is the
\* history given at construction followed by exactly N entries in call order, the
\* k-th of them [None, raw choices of the k-th such call].
C2_HistoryIsInitialThenLog ==
    self.with_history =>
        self.history = self0.history \o [k \in 1..Len(log) |-> <<None, log[k]>>]

C2_Witness ==
    /\ self.with_history
    /\ Len(log) = 2
    /\ log[1] # log[2]
    /\ \E t \in DOMAIN pc :
          /\ pc[t] = "done"
          /\ result[t].kind = "returned"
          /\ local[t].stop # None
          /\ result[t].value # FirstContent(local[t].response.body)

\* C4: a 200 response of the expected shape and stop = None: the call returns
\* data.choices[0].content.
C4_ReturnsFirstContent ==
    \A t \in DOMAIN pc :
        (/\ pc[t] = "done"
         /\ Answered(t)
         /\ local[t].response.status = HTTP_OK
         /\ IsEnvelope(local[t].response.body)
         /\ local[t].stop = None)
        => result[t] = Returned(FirstContent(local[t].response.body))

C4_Witness ==
    \E t \in DOMAIN pc :
        /\ pc[t] = "done"
        /\ local[t].response.status = HTTP_OK
        /\ IsEnvelope(local[t].response.body)
        /\ local[t].stop = None
        /\ Len(RawChoices(local[t].response.body).l) = 2
        /\ self.with_history
        /\ local[t].history_before # <<>>
        /\ local[t].prompt # <<>>
        /\ result[t].kind = "returned"

\* C3: with stop markers S and response text T the call returns T cut just before the
\* smallest start index at which a marker of S occurs in T, and T itself when no
\* marker of S occurs in T.
C3_CutAtEarliestMarker ==
    \A t \in DOMAIN pc :
        (/\ pc[t] = "done"
         /\ Answered(t)
         /\ local[t].response.status = HTTP_OK
         /\ IsEnvelope(local[t].response.body)
         /\ local[t].stop # None)
        => LET T == FirstContent(local[t].response.body).s
               S == {local[t].stop.l[j] : j \in 1..Len(local[t].stop.l)}
               starts == {i \in 0..Len(T) :
                             \E m \in S : /\ i + Len(m) <= Len(T)
                                          /\ \A n \in 1..Len(m) : T[i + n] = m[n]}
           IN  /\ result[t].kind = "returned"
               /\ result[t].value.t = "str"
               /\ IF starts = {}
                  THEN result[t].value.s = T
                  ELSE \E i \in starts :
                          /\ \A j \in starts : i <= j
                          /\ result[t].value.s = [n \in 1..i |-> T[n]]

\* a marker listed second cuts earlier than the marker listed first
C3_Witness ==
    \E t \in DOMAIN pc :
        /\ pc[t] = "done"
        /\ result[t].kind = "returned"
        /\ Len(local[t].stop.l) = 2
        /\ Find(FirstContent(local[t].response.body).s, local[t].stop.l[1]) = 2
        /\ Find(FirstContent(local[t].response.body).s, local[t].stop.l[2]) = 1
        /\ Len(result[t].value.s) = 1

\* the mismatches of the response body that C5 lists
ListedMismatch(body) ==
    \/ body = Invalid
    \/ body.t # "dict"
    \/ "data" \notin DOMAIN body.d
    \/ body.d["data"].t # "dict"
    \/ "choices" \notin DOMAIN body.d["data"].d
    \/ /\ body.d["data"].d["choices"].t = "list"
       /\ \/ Len(body.d["data"].d["choices"].l) = 0
          \/ /\ body.d["data"].d["choices"].l[1].t = "dict"
             /\ "content" \notin DOMAIN body.d["data"].d["choices"].l[1].d

\* C5: a 200 response whose body does not match the expected shape makes the call
\* fail with ResponseParseError, the same kind of error for every such body.
C5_MismatchIsResponseParseError ==
    \A t \in DOMAIN pc :
        (/\ pc[t] = "done"
         /\ Answered(t)
         /\ local[t].response.status = HTTP_OK
         /\ ListedMismatch(local[t].response.body))
        => /\ result[t].kind = "raised"
           /\ Kind(result[t].exc) = "ResponseParseError"

\* C6: a response with a status other than 200 makes the call fail with UpstreamError,
\* whatever the body; no text is returned and the history is what it was before the call.
C6_Non200IsUpstreamError ==
    \A t \in DOMAIN pc :
        (/\ Answered(t)
         /\ local[t].response.status # HTTP_OK)
        => /\ pc[t] = "done"
           /\ result[t].kind = "raised"
           /\ Kind(result[t].exc) = "UpstreamError"
           /\ result[t].value = None
           /\ self.history = local[t].history_before

C6_Witness ==
    \E t \in DOMAIN pc :
        /\ pc[t] = "done"
        /\ Answered(t)
        /\ local[t].response.status = 404
        /\ IsEnvelope(local[t].response.body)
        /\ self.with_history
        /\ Len(log) = 1
        /\ Kind(result[t].exc) = "UpstreamError"

\* the built-in value of a payload key, from the call and the configuration
C7_BuiltIn(t, k) ==
    CASE k = "prompt" -> Str(local[t].prompt)
      [] k = "temperature" -> self0.temperature
      [] k = "history" -> List(local[t].history_before)
      [] k = "max_length" -> self0.max_token
      [] k = "top_p" -> self0.top_p
      [] k = "return_type" -> self0.return_type

\* C7: each key of the payload carries the per-call value if the call gives the key,
\* else the model_kwargs value if model_kwargs gives it, else the built-in value; the
\* keys are the six built-in keys and those of model_kwargs and of the call.
C7_PayloadPrecedence ==
    \A t \in DOMAIN pc :
        (pc[t] \in {"post", "parsed", "store"} \/ (pc[t] = "done" /\ local[t].posts >= 1))
        => LET payload == local[t].payload
               extra == local[t].kwargs
               config == IF self0.model_kwargs = None THEN EmptyDict
                         ELSE self0.model_kwargs.d
               builtin == {"prompt", "temperature", "history", "max_length", "top_p",
                           "return_type"}
           IN  /\ DOMAIN payload = builtin \cup DOMAIN config \cup DOMAIN extra
               /\ \A k \in DOMAIN payload :
                     payload[k] = IF k \in DOMAIN extra THEN extra[k]
                                  ELSE IF k \in DOMAIN config THEN config[k]
                                  ELSE C7_BuiltIn(t, k)

\* temperature is given by both layers, top_k by model_kwargs alone
C7_Witness ==
    \E t \in DOMAIN pc :
        /\ pc[t] = "post"
        /\ self.model_kwargs # None
        /\ "temperature" \in DOMAIN self.model_kwargs.d
        /\ "temperature" \in DOMAIN local[t].kwargs
        /\ self.model_kwargs.d["temperature"] # local[t].kwargs["temperature"]
        /\ local[t].payload["temperature"] = local[t].kwargs["temperature"]
        /\ local[t].payload["top_k"] = self.model_kwargs.d["top_k"]
        /\ local[t].payload["history"] # List(<<>>)

\* C8: when all concurrent calls have ended, the history of an instance constructed
\* with the default empty history holds one entry per call that returned, with that
\* call's raw choices: no append is lost.
C8_NoAppendLost ==
    (\A t \in DOMAIN pc : pc[t] \in {"idle", "done"}) =>
        /\ Len(self.history) = Len(log)
        /\ \A k \in 1..Len(log) :
              Cardinality({j \in 1..Len(self.history) : self.history[j] = <<None, log[k]>>})
                  = Cardinality({j \in 1..Len(log) : log[j] = log[k]})

\* C9: a call ends with a returned text or with a propagated error; it issues at most
\* one POST, and a call that failed with one of the five error kinds left the history
\* as it was before the call.
C9_TextOrError ==
    \A t \in DOMAIN pc :
        /\ local[t].posts <= 1
        /\ pc[t] = "done" =>
              /\ \/ result[t].kind = "returned" /\ result[t].value.t = "str"
                 \/ result[t].kind = "raised"
              /\ (result[t].kind = "raised" /\ Kind(result[t].exc) \in ErrorKinds)
                    => self.history = local[t].history_before

\* C10: every field but history keeps its construction value; without with_history the
\* history keeps its construction value; with with_history the history changes only
\* by one entry appended at the end, in the step in which a call returns, and every
\* call that returns appends one.
C10_Frame ==
    /\ []([self EXCEPT !.history = self0.history] = self0)
    /\ [](~self.with_history => self.history = self0.history)
    /\ [][LET returns == \E t \in DOMAIN pc : /\ pc[t] # "done"
                                              /\ pc'[t] = "done"
                                              /\ result'[t].kind = "returned"
          IN  /\ (self'.history # self.history) =>
                     (/\ self.with_history
                      /\ returns
                      /\ Len(self'.history) = Len(self.history) + 1
                      /\ SubSeq(self'.history, 1, Len(self.history)) = self.history)
              /\ (self.with_history /\ returns) =>
                     (Len(self'.history) = Len(self.history) + 1)]_vars

C10_Witness ==
    /\ self.with_history
    /\ self0.history # <<>>
    /\ Len(self.history) = Len(self0.history) + 2
    /\ \E t \in DOMAIN pc : /\ pc[t] = "done"
                            /\ Answered(t)
                            /\ result[t].kind = "raised"

====
